---- MODULE Spec2Model ----
(***************************************************************************)
(* Model of the SpaceX extraction-and-upsert core:                         *)
(*   include/extractors/spacex_extractor.py  (SpaceXExtractor)             *)
(*   include/utils/database_utils.py         (check_data_quality)          *)
(*   dags/spacex_etl_dag.py                  (tasks and dependencies)      *)
(***************************************************************************)
EXTENDS Integers, Sequences, FiniteSets, TLC

(* ---------------------------------------------------------------------- *)
(* Bounds                                                                  *)
(* ---------------------------------------------------------------------- *)
MaxWorkers == 2
MaxAttempts == 2
MaxBatch == 2
MaxTime == 1
MaxFaults == 3
DagBatch == 1
MaxMissing == 60
MaxComplete == 1
MaxFlagged == 1
MaxUnflagged == 5
GateMaxTime == 8
MaxEvals == 2

(* ---------------------------------------------------------------------- *)
(* Values                                                                  *)
(* ---------------------------------------------------------------------- *)
Workers == 1..MaxWorkers
Tables == {"launches", "starlink", "rockets"}
None == "None"
JNull == "null"
\* A value that is present, and its absence (no such local, None, SQL NULL,
\* no XCom).
Some(v) == <<v>>
Absent == <<>>
SourceSystem == "spacex_api_v4"
DagName == "spacex_etl_pipeline"

\* Documents the upstream API can return, per collection.
Docs(t) ==
  IF t = "launches" THEN
    { [id |-> "id1", name |-> "Falcon Test", date_utc |-> "2024-01-01"],
      [id |-> "id1", name |-> "Falcon Test v2", date_utc |-> "2024-01-01"],
      [id |-> "id2", name |-> "Crew", date_utc |-> None] }
  ELSE IF t = "starlink" THEN
    { [id |-> "id1", spaceTrack |-> [DECAYED |-> "0"]],
      [id |-> "id1", spaceTrack |-> [DECAYED |-> "1"]],
      [id |-> "id2", spaceTrack |-> [DECAYED |-> None]] }
  ELSE
    { [id |-> "id1", name |-> "Falcon 9"],
      [id |-> "id1", name |-> "Falcon 9 v2"],
      [id |-> "id2", name |-> "Starship"] }

SeqsUpTo(S, n) == UNION { [1..k -> S] : k \in 0..n }

\* Bodies a successful GET of a collection can decode to.
Responses(t) == SeqsUpTo(Docs(t), MaxBatch)

\* json.dumps of a dict: Python None becomes JSON null, the nested dict
\* (spaceTrack) is dumped member by member, other scalars (written here as
\* their JSON text) are kept.
JsonValue(v) == IF v = None THEN JNull ELSE v

JsonDumps(d) ==
  [k \in DOMAIN d |->
     IF k = "spaceTrack"
       THEN [j \in DOMAIN d[k] |-> JsonValue(d[k][j])]
       ELSE JsonValue(d[k])]

(* ---------------------------------------------------------------------- *)
(* State                                                                   *)
(* ---------------------------------------------------------------------- *)
VARIABLES
  tables,          \* committed rows of bronze.<table>, a sequence per table
  ledger,          \* committed rows of bronze.pipeline_metadata
  context,         \* the 'dag' entry of the call context (None when called by hand)
  now,             \* wall clock (datetime.now() / NOW())
  attempts,        \* extraction calls started so far
  pc,              \* per worker: "idle", "loading", "done"
  task,            \* per worker: the collection its extract_* method loads
  batch,           \* per worker: the decoded response (launches / satellites / rockets)
  idx,             \* per worker: position of the for loop in batch
  inserted_count,  \* per worker: local inserted_count (extract_rockets has none)
  updated_count,   \* per worker: local updated_count (extract_rockets has none)
  pending,         \* per worker: rows written by its open transaction
  conn,            \* per worker: the extraction's connection
  ledger_conn,     \* per worker: the connection of its log_pipeline_run call
  log_result,      \* per worker: what became of its ledger write
  cause,           \* per worker: the exception caught by the except block
  outcome,         \* per worker: how the call ended
  ti_state,        \* per DAG task: the state of its task instance in the run
  tries,           \* per DAG task: attempts made in the run
  xcom,            \* values pushed with xcom_push, by key
  faults,          \* failures of the network, database or dbt so far in the run
  quality_log      \* evaluations of the quality gate: time, checks, verdict

dbvars == <<tables, ledger, context, now>>
workervars == <<attempts, pc, task, batch, idx, inserted_count, updated_count,
                pending, conn, ledger_conn, log_result, cause, outcome>>
dagvars == <<ti_state, tries, xcom, faults>>

vars == <<tables, ledger, context, now, attempts, pc, task, batch, idx, inserted_count,
          updated_count, pending, conn, ledger_conn, log_result, cause, outcome,
          ti_state, tries, xcom, faults, quality_log>>

\* The workers are interchangeable, so Init lists each assignment of
\* extractors to workers once.
TableRank(t) == IF t = "launches" THEN 1 ELSE IF t = "starlink" THEN 2 ELSE 3

NoOutcome == [kind |-> "none"]
Returned(n) == [kind |-> "returned", value |-> n]
Raised(e) == [kind |-> "raised", error |-> e]

\* The task ids of the DAG spacex_etl_pipeline.
ExtractTasks == {"extract_launches", "extract_starlink", "extract_rockets"}
BashTasks == {"silver_transformations", "gold_analytics", "dbt_data_tests",
              "generate_dbt_docs", "final_validation"}
DagTasks == {"test_database_connection", "data_quality_checks", "extraction_summary",
             "completion_notification"} \cup ExtractTasks \cup BashTasks

XComKeys == {"launches_count", "starlink_count", "rockets_count", "quality_checks",
             "extraction_summary"}

\* No extractor has been called.
WorkersIdle ==
  /\ attempts = 0
  /\ pc = [w \in Workers |-> "idle"]
  /\ batch = [w \in Workers |-> <<>>]
  /\ idx = [w \in Workers |-> 1]
  /\ inserted_count = [w \in Workers |-> Absent]
  /\ updated_count = [w \in Workers |-> Absent]
  /\ pending = [w \in Workers |-> <<>>]
  /\ conn = [w \in Workers |-> "none"]
  /\ ledger_conn = [w \in Workers |-> "none"]
  /\ log_result = [w \in Workers |-> "none"]
  /\ cause = [w \in Workers |-> None]
  /\ outcome = [w \in Workers |-> NoOutcome]

\* A DAG run that has scheduled nothing yet.
DagIdle ==
  /\ ti_state = [t \in DagTasks |-> "none"]
  /\ tries = [t \in DagTasks |-> 0]
  /\ xcom = [k \in XComKeys |-> Absent]
  /\ faults = 0
  /\ quality_log = <<>>

\* Empty schema; the extractors are called by concurrent processes, with or
\* without a DAG in their context.
Init ==
  /\ tables = [t \in Tables |-> <<>>]
  /\ ledger = <<>>
  /\ context \in {DagName, None}
  /\ now = 0
  /\ task \in {f \in [Workers -> Tables] :
                \A v, w \in Workers : v < w => TableRank(f[v]) <= TableRank(f[w])}
  /\ WorkersIdle
  /\ DagIdle

(* ---------------------------------------------------------------------- *)
(* Raw tables: INSERT ... ON CONFLICT (id) DO UPDATE                       *)
(* ---------------------------------------------------------------------- *)
Row(id, data, ts, src) ==
  [id |-> id, data |-> data, extracted_at |-> ts, source_system |-> src]

HasId(rows, id) == \E i \in 1..Len(rows) : rows[i].id = id

RowOf(rows, id) == rows[CHOOSE i \in 1..Len(rows) : rows[i].id = id]

Ids(rows) == {rows[i].id : i \in 1..Len(rows)}

\* A plain INSERT into a table without its unique index.
UpsertRowNoConflict(rows, id, data, ts) ==
  [rows |-> Append(rows, Row(id, data, ts, SourceSystem)),
   row |-> Row(id, data, ts, SourceSystem),
   inserted |-> TRUE]

\* ON CONFLICT (id) DO NOTHING.
UpsertRowKeepOld(rows, id, data, ts) ==
  IF HasId(rows, id)
    THEN [rows |-> rows, row |-> RowOf(rows, id), inserted |-> FALSE]
    ELSE [rows |-> Append(rows, Row(id, data, ts, SourceSystem)),
          row |-> Row(id, data, ts, SourceSystem),
          inserted |-> TRUE]

\* What one statement does to the rows it can see, the row it wrote, and the
\* RETURNING (xmax = 0) flag: a conflicting row keeps id and source_system
\* and takes the EXCLUDED data and extracted_at; otherwise a row is added.
UpsertRow(rows, id, data, ts) ==
  IF HasId(rows, id)
    THEN LET old == RowOf(rows, id)
             new == [old EXCEPT !.data = data, !.extracted_at = ts]
         IN [rows |-> [i \in 1..Len(rows) |->
                         IF rows[i].id = id THEN new ELSE rows[i]],
             row |-> new,
             inserted |-> FALSE]
    ELSE [rows |-> Append(rows, Row(id, data, ts, SourceSystem)),
          row |-> Row(id, data, ts, SourceSystem),
          inserted |-> TRUE]

\* The rows a transaction has written and not yet committed: a row version
\* it created (fresh) or its new version of a committed row.
WrittenIds(written) == {written[i].row.id : i \in 1..Len(written)}

\* Only the first statement of a transaction for an id takes effect.
WrittenKeepFirst(written, r, inserted) ==
  IF r.id \in WrittenIds(written)
    THEN written
    ELSE Append(written, [row |-> r, fresh |-> inserted])

Written(written, r, inserted) ==
  IF ~inserted /\ r.id \in WrittenIds(written)
    THEN [i \in 1..Len(written) |->
            IF written[i].row.id = r.id
              THEN [written[i] EXCEPT !.row = r] ELSE written[i]]
    ELSE Append(written, [row |-> r, fresh |-> inserted])

\* Truncate-and-load: the written rows replace the table.
OverlayReplace(rows, written) == [i \in 1..Len(written) |-> written[i].row]

\* The rows a transaction sees under READ COMMITTED, and the table once it
\* commits: the committed rows with its new versions in place and the rows
\* it created added.
RECURSIVE Overlay(_, _)
Overlay(rows, written) ==
  IF written = <<>> THEN rows
  ELSE LET h == Head(written)
           base == IF h.fresh
                     THEN Append(rows, h.row)
                     ELSE [i \in 1..Len(rows) |->
                             IF rows[i].id = h.row.id THEN h.row ELSE rows[i]]
       IN Overlay(base, Tail(written))

\* The unique index on id makes a statement wait while another open
\* transaction holds an uncommitted version of the same key.
RowLocked(w, t, id) ==
  \E o \in Workers \ {w} :
    /\ conn[o] = "open"
    /\ task[o] = t
    /\ id \in WrittenIds(pending[o])

\* is_inserted = cursor.fetchone()[0]; one of the two counters moves.
ClassifyBoth(ins, upd, is_inserted) ==
  [inserted_count |-> IF is_inserted THEN Some(ins[1] + 1) ELSE ins,
   updated_count |-> Some(upd[1] + 1)]

Classify(ins, upd, is_inserted) ==
  IF is_inserted
    THEN [inserted_count |-> Some(ins[1] + 1), updated_count |-> upd]
    ELSE [inserted_count |-> ins, updated_count |-> Some(upd[1] + 1)]

(* ---------------------------------------------------------------------- *)
(* Quality gate queries: check_data_quality                                *)
(* ---------------------------------------------------------------------- *)
SqlNull == "NULL"
SevenDays == 7

\* data->>'key': the member as text, SQL NULL when absent or JSON null.
JsonText(doc, key) ==
  IF key \in DOMAIN doc /\ doc[key] # JNull THEN doc[key] ELSE SqlNull

CountWhere(rows, P(_)) == Cardinality({i \in 1..Len(rows) : P(rows[i])})

\* SELECT COUNT(*), COUNT(DISTINCT id) FROM bronze.launches; total - unique
LaunchesDuplicates(rows) == Len(rows) - Cardinality(Ids(rows))

\* WHERE data->>'name' IS NULL OR data->>'date_utc' IS NULL
MissingData(r) ==
  \/ JsonText(r.data, "name") = SqlNull
  \/ JsonText(r.data, "date_utc") = SqlNull

\* data->'spaceTrack'->>'DECAYED': SQL NULL when either key is absent.
Decayed(r) ==
  IF "spaceTrack" \in DOMAIN r.data
    THEN JsonText(r.data["spaceTrack"], "DECAYED")
    ELSE SqlNull

\* WHERE extracted_at >= NOW() - INTERVAL '7 days'
Recent(r, at) == r.extracted_at >= at - SevenDays

\* check_data_quality with the missing-data query limited to recent rows.
CheckDataQualityRecentOnly(tbls, at) ==
  [launches_duplicates |-> LaunchesDuplicates(tbls["launches"]),
   launches_missing_data |->
     CountWhere(tbls["launches"], LAMBDA r : MissingData(r) /\ Recent(r, at)),
   starlink_total |-> Len(tbls["starlink"]),
   starlink_active |-> CountWhere(tbls["starlink"], LAMBDA r : Decayed(r) = "0"),
   starlink_inactive |-> CountWhere(tbls["starlink"], LAMBDA r : Decayed(r) = "1"),
   recent_launches |-> CountWhere(tbls["launches"], LAMBDA r : Recent(r, at))]

\* The checks dict for the committed tables tbls, evaluated at time at.
CheckDataQuality(tbls, at) ==
  [launches_duplicates |-> LaunchesDuplicates(tbls["launches"]),
   launches_missing_data |-> CountWhere(tbls["launches"], MissingData),
   starlink_total |-> Len(tbls["starlink"]),
   starlink_active |-> CountWhere(tbls["starlink"], LAMBDA r : Decayed(r) = "0"),
   starlink_inactive |-> CountWhere(tbls["starlink"], LAMBDA r : Decayed(r) = "1"),
   recent_launches |-> CountWhere(tbls["launches"], LAMBDA r : Recent(r, at))]

(* ---------------------------------------------------------------------- *)
(* Run ledger: log_pipeline_run                                            *)
(* ---------------------------------------------------------------------- *)
\* Where a call of log_pipeline_run can break: nowhere, in get_connection,
\* or in execute / commit on the open connection.
LedgerFaults == {"ok", "connect", "execute"}

\* context.get('dag').dag_id if context.get('dag') else 'manual'
DagId(ctx) == IF ctx # None THEN ctx ELSE "manual"
TaskId(t) == "extract_" \o t

LedgerEntry(dag_id, task_id, status, records, error) ==
  [pipeline_name |-> dag_id \o "." \o task_id, status |-> status,
   records_processed |-> records, error_message |-> error]

\* log_pipeline_run keeping one row per pipeline_name (UPDATE when present).
LogPipelineRunOverwrite(ledg, dag_id, task_id, status, records, error, fault) ==
  LET e == LedgerEntry(dag_id, task_id, status, records, error)
      hit == {i \in 1..Len(ledg) : ledg[i].pipeline_name = e.pipeline_name}
  IN [ledger |-> IF fault # "ok" THEN ledg
                 ELSE IF hit = {} THEN Append(ledg, e)
                 ELSE [i \in 1..Len(ledg) |-> IF i \in hit THEN e ELSE ledg[i]],
      conn   |-> IF fault = "ok" THEN "closed"
                 ELSE IF fault = "connect" THEN "none" ELSE "open",
      result |-> IF fault = "ok" THEN "written" ELSE "swallowed",
      raised |-> None]

\* log_pipeline_run without its try/except.
LogPipelineRunRaises(ledg, dag_id, task_id, status, records, error, fault) ==
  [ledger |-> IF fault = "ok"
                THEN Append(ledg, LedgerEntry(dag_id, task_id, status, records, error))
                ELSE ledg,
   conn   |-> IF fault = "ok" THEN "closed"
              ELSE IF fault = "connect" THEN "none" ELSE "open",
   result |-> IF fault = "ok" THEN "written" ELSE "swallowed",
   raised |-> IF fault = "ok" THEN None ELSE "LedgerWriteFailure"]

\* One call of log_pipeline_run under a fault of its own database work.
\* Every exception is caught and logged, so nothing is raised to the caller;
\* the connection is closed only on the path that runs to the end.
LogPipelineRun(ledg, dag_id, task_id, status, records, error, fault) ==
  [ledger |-> IF fault = "ok"
                THEN Append(ledg, LedgerEntry(dag_id, task_id, status, records, error))
                ELSE ledg,
   conn   |-> IF fault = "ok" THEN "closed"
              ELSE IF fault = "connect" THEN "none" ELSE "open",
   result |-> IF fault = "ok" THEN "written" ELSE "swallowed",
   raised |-> None]

JoinConn(a, b) == IF "open" \in {a, b} THEN "open"
                  ELSE IF "closed" \in {a, b} THEN "closed" ELSE "none"

(* ---------------------------------------------------------------------- *)
(* extract_launches / extract_starlink / extract_rockets                   *)
(* ---------------------------------------------------------------------- *)
\* The except block without its final raise.
ExceptBlockNoRaise(w, t, e, dag_id, prior, fault) ==
  LET l == LogPipelineRun(ledger, dag_id, TaskId(t), "failed", 0, e, fault)
  IN /\ ledger' = l.ledger
     /\ ledger_conn' = [ledger_conn EXCEPT ![w] = JoinConn(prior, l.conn)]
     /\ log_result' = [log_result EXCEPT ![w] = l.result]
     /\ cause' = [cause EXCEPT ![w] = e]
     /\ outcome' = [outcome EXCEPT ![w] = Returned(0)]
     /\ pc' = [pc EXCEPT ![w] = "done"]

\* The except block: log the failure, then re-raise the caught exception
\* (a raise out of log_pipeline_run would replace it).
ExceptBlock(w, t, e, dag_id, prior, fault) ==
  LET l == LogPipelineRun(ledger, dag_id, TaskId(t), "failed", 0, e, fault)
  IN /\ ledger' = l.ledger
     /\ ledger_conn' = [ledger_conn EXCEPT ![w] = JoinConn(prior, l.conn)]
     /\ log_result' = [log_result EXCEPT ![w] = l.result]
     /\ cause' = [cause EXCEPT ![w] = e]
     /\ outcome' = [outcome EXCEPT ![w] = Raised(IF l.raised = None THEN e ELSE l.raised)]
     /\ pc' = [pc EXCEPT ![w] = "done"]

\* The frame's locals are gone once the exception has left the method.
Unwind(w) ==
  /\ batch' = [batch EXCEPT ![w] = <<>>]
  /\ idx' = [idx EXCEPT ![w] = 1]
  /\ inserted_count' = [inserted_count EXCEPT ![w] = Absent]
  /\ updated_count' = [updated_count EXCEPT ![w] = Absent]

\* requests.get / raise_for_status / json() or get_connection raises.
StartFails(w) ==
  /\ UNCHANGED <<dagvars, quality_log>>
  /\ pc[w] = "idle"
  /\ attempts < MaxAttempts
  /\ attempts' = attempts + 1
  /\ \E e \in {"TransientFetchError", "StoreError"}, f \in LedgerFaults :
       ExceptBlock(w, task[w], e, DagId(context), "none", f)
  /\ UNCHANGED <<tables, context, now, task, batch, idx, inserted_count, updated_count, pending, conn>>

\* The fetch returns a decoded list and the connection opens.
StartLoad(w) ==
  /\ UNCHANGED <<dagvars, quality_log>>
  /\ pc[w] = "idle"
  /\ attempts < MaxAttempts
  /\ attempts' = attempts + 1
  /\ \E b \in Responses(task[w]) : batch' = [batch EXCEPT ![w] = b]
  /\ idx' = [idx EXCEPT ![w] = 1]
  /\ inserted_count' = [inserted_count EXCEPT ![w] = IF task[w] = "rockets" THEN Absent ELSE Some(0)]
  /\ updated_count' = [updated_count EXCEPT ![w] = IF task[w] = "rockets" THEN Absent ELSE Some(0)]
  /\ conn' = [conn EXCEPT ![w] = "open"]
  /\ pc' = [pc EXCEPT ![w] = "loading"]
  /\ UNCHANGED <<tables, ledger, context, now, task, pending, ledger_conn, log_result, cause, outcome>>

\* One pass of the for loop on a connection in autocommit mode: the
\* statement's effect is committed at once.
ExecuteUpsertAutocommit(w) ==
  /\ UNCHANGED <<dagvars, quality_log>>
  /\ pc[w] = "loading"
  /\ idx[w] <= Len(batch[w])
  /\ LET rec == batch[w][idx[w]]
         t == task[w]
         r == UpsertRow(tables[t], rec.id, JsonDumps(rec), now)
         c == Classify(inserted_count[w], updated_count[w], r.inserted)
     IN /\ tables' = [tables EXCEPT ![t] = r.rows]
        /\ inserted_count' = [inserted_count EXCEPT ![w] =
             IF t = "rockets" THEN Absent ELSE c.inserted_count]
        /\ updated_count' = [updated_count EXCEPT ![w] =
             IF t = "rockets" THEN Absent ELSE c.updated_count]
  /\ idx' = [idx EXCEPT ![w] = idx[w] + 1]
  /\ UNCHANGED <<ledger, context, now, attempts, pc, task, batch, pending, conn, ledger_conn,
                 log_result, cause, outcome>>

\* One pass of the for loop: cursor.execute, fetchone, count.
ExecuteUpsert(w) ==
  /\ UNCHANGED <<dagvars, quality_log>>
  /\ pc[w] = "loading"
  /\ idx[w] <= Len(batch[w])
  /\ LET rec == batch[w][idx[w]]
         t == task[w]
         r == UpsertRow(Overlay(tables[t], pending[w]), rec.id, JsonDumps(rec), now)
         c == Classify(inserted_count[w], updated_count[w], r.inserted)
     IN /\ ~RowLocked(w, t, rec.id)
        /\ pending' = [pending EXCEPT ![w] = Written(pending[w], r.row, r.inserted)]
        /\ inserted_count' = [inserted_count EXCEPT ![w] =
             IF t = "rockets" THEN Absent ELSE c.inserted_count]
        /\ updated_count' = [updated_count EXCEPT ![w] =
             IF t = "rockets" THEN Absent ELSE c.updated_count]
  /\ idx' = [idx EXCEPT ![w] = idx[w] + 1]
  /\ UNCHANGED <<tables, ledger, context, now, attempts, pc, task, batch, conn, ledger_conn,
                 log_result, cause, outcome>>

\* cursor.execute raises in the loop: the except block runs with the
\* transaction still open and the connection never closed.
ExecuteFails(w) ==
  /\ UNCHANGED <<dagvars, quality_log>>
  /\ pc[w] = "loading"
  /\ idx[w] <= Len(batch[w])
  /\ \E f \in LedgerFaults : ExceptBlock(w, task[w], "StoreError", DagId(context), "none", f)
  /\ Unwind(w)
  /\ UNCHANGED <<tables, context, now, attempts, task, pending, conn>>

\* conn.commit raises after the loop.
CommitFails(w) ==
  /\ UNCHANGED <<dagvars, quality_log>>
  /\ pc[w] = "loading"
  /\ idx[w] > Len(batch[w])
  /\ \E f \in LedgerFaults : ExceptBlock(w, task[w], "StoreError", DagId(context), "none", f)
  /\ Unwind(w)
  /\ UNCHANGED <<tables, context, now, attempts, task, pending, conn>>

\* conn.commit, cursor.close, conn.close, log success, return len(batch).
CommitAndReturn(w) ==
  /\ UNCHANGED <<dagvars, quality_log>>
  /\ pc[w] = "loading"
  /\ idx[w] > Len(batch[w])
  /\ tables' = [tables EXCEPT ![task[w]] = Overlay(tables[task[w]], pending[w])]
  /\ pending' = [pending EXCEPT ![w] = <<>>]
  /\ conn' = [conn EXCEPT ![w] = "closed"]
  /\ \E f \in LedgerFaults :
       LET l == LogPipelineRun(ledger, DagId(context), TaskId(task[w]), "success",
                               Len(batch[w]), None, f)
       IN IF l.raised = None
            THEN /\ ledger' = l.ledger
                 /\ ledger_conn' = [ledger_conn EXCEPT ![w] = l.conn]
                 /\ log_result' = [log_result EXCEPT ![w] = l.result]
                 /\ outcome' = [outcome EXCEPT ![w] = Returned(Len(batch[w]))]
                 /\ pc' = [pc EXCEPT ![w] = "done"]
                 /\ UNCHANGED cause
            ELSE \E g \in LedgerFaults : ExceptBlock(w, task[w], l.raised, DagId(context), l.conn, g)
  /\ UNCHANGED <<context, now, attempts, task, batch, idx, inserted_count, updated_count>>

\* The calling process ends: its sockets close, an open transaction is
\* rolled back by the server.
ProcessExit(w) ==
  /\ UNCHANGED <<dagvars, quality_log>>
  /\ pc[w] = "done"
  /\ pc' = [pc EXCEPT ![w] = "idle"]
  /\ batch' = [batch EXCEPT ![w] = <<>>]
  /\ idx' = [idx EXCEPT ![w] = 1]
  /\ inserted_count' = [inserted_count EXCEPT ![w] = Absent]
  /\ updated_count' = [updated_count EXCEPT ![w] = Absent]
  /\ pending' = [pending EXCEPT ![w] = <<>>]
  /\ conn' = [conn EXCEPT ![w] = "none"]
  /\ ledger_conn' = [ledger_conn EXCEPT ![w] = "none"]
  /\ log_result' = [log_result EXCEPT ![w] = "none"]
  /\ cause' = [cause EXCEPT ![w] = None]
  /\ outcome' = [outcome EXCEPT ![w] = NoOutcome]
  /\ UNCHANGED <<tables, ledger, context, now, attempts, task>>

Tick ==
  /\ UNCHANGED <<dagvars, quality_log>>
  /\ now < MaxTime
  /\ now' = now + 1
  /\ UNCHANGED <<tables, ledger, context, attempts, pc, task, batch, idx, inserted_count,
                 updated_count, pending, conn, ledger_conn, log_result, cause, outcome>>

Next ==
  \/ \E w \in Workers : StartFails(w)
  \/ \E w \in Workers : StartLoad(w)
  \/ \E w \in Workers : ExecuteUpsert(w)
  \/ \E w \in Workers : ExecuteFails(w)
  \/ \E w \in Workers : CommitFails(w)
  \/ \E w \in Workers : CommitAndReturn(w)
  \/ \E w \in Workers : ProcessExit(w)
  \/ Tick

Spec == Init /\ [][Next]_vars

(* ---------------------------------------------------------------------- *)
(* Whole calls, as one task process runs them                              *)
(* ---------------------------------------------------------------------- *)
\* The for loop of an extract_* method over the whole batch, in one
\* transaction that starts from the committed rows.
RECURSIVE LoadAll(_, _, _, _)
LoadAll(rows, written, recs, at) ==
  IF recs = <<>> THEN Overlay(rows, written)
  ELSE LET rec == Head(recs)
           r == UpsertRow(Overlay(rows, written), rec.id, JsonDumps(rec), at)
       IN LoadAll(rows, Written(written, r.row, r.inserted), Tail(recs), at)

ExtractFaults == {"ok", "TransientFetchError", "StoreError"}

\* One call of extract_<t>: the fetch returns resp unless fault says the
\* fetch or the database work raised; nothing is committed on a raise.
ExtractCall(t, tbls, ledg, ctx, at, resp, fault, lfault) ==
  IF fault = "ok"
    THEN [tables |-> [tbls EXCEPT ![t] = LoadAll(tbls[t], <<>>, resp, at)],
          ledger |-> LogPipelineRun(ledg, DagId(ctx), TaskId(t), "success",
                                    Len(resp), None, lfault).ledger,
          outcome |-> Returned(Len(resp))]
    ELSE [tables |-> tbls,
          ledger |-> LogPipelineRun(ledg, DagId(ctx), TaskId(t), "failed",
                                    0, fault, lfault).ledger,
          outcome |-> Raised(fault)]

MaxOf(S) == CHOOSE x \in S : \A y \in S : y <= x

\* SELECT MAX(extracted_at): NULL on an empty table.
LastUpdate(rows) ==
  IF rows = <<>> THEN Absent
  ELSE Some(MaxOf({rows[i].extracted_at : i \in 1..Len(rows)}))

\* SpaceXExtractor.get_extraction_summary: the counts and last updates, or
\* the empty dict when the query fails.
GetExtractionSummary(tbls, ok) ==
  IF ok
    THEN [launches_count |-> Some(Len(tbls["launches"])),
          starlink_count |-> Some(Len(tbls["starlink"])),
          rockets_count |-> Some(Len(tbls["rockets"])),
          last_launch_update |-> LastUpdate(tbls["launches"]),
          last_starlink_update |-> LastUpdate(tbls["starlink"])]
    ELSE [launches_count |-> Absent, starlink_count |-> Absent,
          rockets_count |-> Absent, last_launch_update |-> Absent,
          last_starlink_update |-> Absent]

MissingDataLimit == 50

\* The two raises of run_data_quality_checks, with a limit of >= 50.
QualityVerdictAtLimit(checks) ==
  IF checks.launches_missing_data >= MissingDataLimit
    THEN "Too many launches with missing data"
  ELSE IF checks.starlink_total = 0
    THEN "No Starlink satellite data found"
  ELSE "passed"

\* The two raises of run_data_quality_checks after the XCom push.
QualityVerdict(checks) ==
  IF checks.launches_missing_data > MissingDataLimit
    THEN "Too many launches with missing data"
  ELSE IF checks.starlink_total = 0
    THEN "No Starlink satellite data found"
  ELSE "passed"

(* ---------------------------------------------------------------------- *)
(* The DAG: task dependencies and task instances                           *)
(* ---------------------------------------------------------------------- *)
Retries == 2

TableOf(t) ==
  IF t = "extract_launches" THEN "launches"
  ELSE IF t = "extract_starlink" THEN "starlink" ELSE "rockets"

CountKey(t) ==
  IF t = "extract_launches" THEN "launches_count"
  ELSE IF t = "extract_starlink" THEN "starlink_count" ELSE "rockets_count"

\* The gate wired after extract_launches alone.
UpstreamGateAfterLaunches(t) ==
  IF t = "test_database_connection" THEN {}
  ELSE IF t \in ExtractTasks THEN {"test_database_connection"}
  ELSE IF t = "data_quality_checks" THEN {"extract_launches"}
  ELSE IF t = "extraction_summary" THEN {"data_quality_checks"}
  ELSE IF t = "silver_transformations" THEN {"extraction_summary"}
  ELSE IF t = "gold_analytics" THEN {"silver_transformations"}
  ELSE IF t \in {"dbt_data_tests", "generate_dbt_docs"} THEN {"gold_analytics"}
  ELSE IF t = "final_validation" THEN {"dbt_data_tests", "generate_dbt_docs"}
  ELSE {"final_validation"}

\* The direct upstream tasks set with >> at the end of the DAG file.
Upstream(t) ==
  IF t = "test_database_connection" THEN {}
  ELSE IF t \in ExtractTasks THEN {"test_database_connection"}
  ELSE IF t = "data_quality_checks" THEN ExtractTasks
  ELSE IF t = "extraction_summary" THEN {"data_quality_checks"}
  ELSE IF t = "silver_transformations" THEN {"extraction_summary"}
  ELSE IF t = "gold_analytics" THEN {"silver_transformations"}
  ELSE IF t \in {"dbt_data_tests", "generate_dbt_docs"} THEN {"gold_analytics"}
  ELSE IF t = "final_validation" THEN {"dbt_data_tests", "generate_dbt_docs"}
  ELSE {"final_validation"}

\* Default trigger rule (all_success): a task instance may run once every
\* upstream task has succeeded, for the first time or as a retry.
Runnable(t) ==
  /\ ti_state[t] \in {"none", "up_for_retry"}
  /\ \A u \in Upstream(t) : ti_state[u] = "success"

Succeed(t) ==
  /\ ti_state' = [ti_state EXCEPT ![t] = "success"]
  /\ tries' = [tries EXCEPT ![t] = tries[t] + 1]

\* default_args: retries = 2, so the third failed try is final.
Fail(t) ==
  /\ ti_state' = [ti_state EXCEPT ![t] =
       IF tries[t] + 1 > Retries THEN "failed" ELSE "up_for_retry"]
  /\ tries' = [tries EXCEPT ![t] = tries[t] + 1]

Cost(x) == IF x = "ok" THEN 0 ELSE 1

\* Bodies the API returns during a DAG run: the collection is empty or
\* lists its record "id2" (up to DagBatch times).
DagResponses(t) == SeqsUpTo({d \in Docs(t) : d.id = "id2"}, DagBatch)

\* test_database_connection
RunTestConnection ==
  LET t == "test_database_connection" IN
  /\ Runnable(t)
  /\ \/ Succeed(t) /\ UNCHANGED faults
     \/ faults < MaxFaults /\ faults' = faults + 1 /\ Fail(t)
  /\ UNCHANGED <<dbvars, workervars, xcom, quality_log>>

\* extract_spacex_launches / _starlink / _rockets: the extractor call, then
\* the XCom push of the count when it returned.
RunExtract(t) ==
  /\ t \in ExtractTasks
  /\ Runnable(t)
  /\ \E resp \in DagResponses(TableOf(t)), f \in ExtractFaults, lf \in LedgerFaults :
       LET c == ExtractCall(TableOf(t), tables, ledger, context, now, resp, f, lf)
       IN /\ faults + Cost(f) + Cost(lf) <= MaxFaults
          /\ faults' = faults + Cost(f) + Cost(lf)
          /\ tables' = c.tables
          /\ ledger' = c.ledger
          /\ IF c.outcome.kind = "returned"
               THEN /\ xcom' = [xcom EXCEPT ![CountKey(t)] = Some(c.outcome.value)]
                    /\ Succeed(t)
               ELSE /\ UNCHANGED xcom
                    /\ Fail(t)
  /\ UNCHANGED <<context, now, workervars, quality_log>>

\* run_data_quality_checks: check_data_quality raises, or its checks are
\* pushed and the two thresholds decide.
RunQualityChecks ==
  LET t == "data_quality_checks" IN
  /\ Runnable(t)
  /\ \/ /\ faults < MaxFaults /\ faults' = faults + 1
        /\ Fail(t)
        /\ UNCHANGED xcom
     \/ LET checks == CheckDataQuality(tables, now)
        IN /\ xcom' = [xcom EXCEPT !["quality_checks"] = Some(checks)]
           /\ IF QualityVerdict(checks) = "passed" THEN Succeed(t) ELSE Fail(t)
           /\ UNCHANGED faults
  /\ UNCHANGED <<dbvars, workervars, quality_log>>

\* get_extraction_summary (the DAG callable): the reader's dict, or {} when
\* its query failed, updated with the three counts pulled from XCom.
RunExtractionSummary ==
  LET t == "extraction_summary" IN
  /\ Runnable(t)
  /\ \E ok \in BOOLEAN :
       /\ faults + (IF ok THEN 0 ELSE 1) <= MaxFaults
       /\ faults' = faults + (IF ok THEN 0 ELSE 1)
       /\ xcom' = [xcom EXCEPT !["extraction_summary"] =
            Some([summary |-> GetExtractionSummary(tables, ok),
                  current_run_launches |-> xcom["launches_count"],
                  current_run_starlink |-> xcom["starlink_count"],
                  current_run_rockets |-> xcom["rockets_count"]])]
  /\ Succeed(t)
  /\ UNCHANGED <<dbvars, workervars, quality_log>>

\* The dbt steps: the shell command exits 0 or not.
RunBash(t) ==
  /\ t \in BashTasks
  /\ Runnable(t)
  /\ \/ Succeed(t) /\ UNCHANGED faults
     \/ faults < MaxFaults /\ faults' = faults + 1 /\ Fail(t)
  /\ UNCHANGED <<dbvars, workervars, xcom, quality_log>>

\* notify_completion: pulls the summary and the checks and prints.
RunNotify ==
  LET t == "completion_notification" IN
  /\ Runnable(t)
  /\ Succeed(t)
  /\ UNCHANGED <<dbvars, workervars, xcom, faults, quality_log>>

\* A task instance below a failed one is never run.
SkipDownstream(t) ==
  /\ ti_state[t] = "none"
  /\ \E u \in Upstream(t) : ti_state[u] \in {"failed", "upstream_failed"}
  /\ ti_state' = [ti_state EXCEPT ![t] = "upstream_failed"]
  /\ UNCHANGED <<dbvars, workervars, tries, xcom, faults, quality_log>>

InitDag ==
  /\ tables = [t \in Tables |-> <<>>]
  /\ ledger = <<>>
  /\ context = DagName
  /\ now = 0
  /\ task = [w \in Workers |-> "launches"]
  /\ WorkersIdle
  /\ DagIdle

NextDag ==
  \/ RunTestConnection
  \/ \E t \in ExtractTasks : RunExtract(t)
  \/ RunQualityChecks
  \/ RunExtractionSummary
  \/ \E t \in BashTasks : RunBash(t)
  \/ RunNotify
  \/ \E t \in DagTasks : SkipDownstream(t)

SpecDag == InitDag /\ [][NextDag]_vars

(* ---------------------------------------------------------------------- *)
(* The quality gate on a table snapshot left by earlier runs               *)
(* ---------------------------------------------------------------------- *)
\* Launch rows: m whose payload lacks date_utc (JSON null) or name (no key),
\* then c complete ones, all extracted at time 0.
LaunchRows(m, c) ==
  [i \in 1..(m + c) |->
     Row("L" \o ToString(i),
         IF i > m THEN JsonDumps([id |-> "L" \o ToString(i), name |-> "Crew",
                                  date_utc |-> "2024-01-01"])
         ELSE IF i % 2 = 1
           THEN JsonDumps([id |-> "L" \o ToString(i), name |-> "Crew",
                           date_utc |-> None])
           ELSE JsonDumps([id |-> "L" \o ToString(i), date_utc |-> "2024-01-01"]),
         0, SourceSystem)]

\* Satellite rows: a with DECAYED 0, d with DECAYED 1, u with no flag set.
StarlinkRows(a, d, u) ==
  [i \in 1..(a + d + u) |->
     Row("S" \o ToString(i),
         JsonDumps([id |-> "S" \o ToString(i),
                    spaceTrack |-> [DECAYED |-> IF i <= a THEN "0"
                                                ELSE IF i <= a + d THEN "1"
                                                ELSE None]]),
         0, SourceSystem)]

Snapshots ==
  { [launches |-> LaunchRows(m, c), starlink |-> StarlinkRows(a, d, u),
     rockets |-> <<>>] :
      m \in 0..MaxMissing, c \in 0..MaxComplete,
      a \in 0..MaxFlagged, d \in 0..MaxFlagged, u \in 0..MaxUnflagged }

\* The snapshot is six days old when the gate first runs.
GateStart == SevenDays - 1

InitGate ==
  /\ tables \in Snapshots
  /\ ledger = <<>>
  /\ context = DagName
  /\ now = GateStart
  /\ task = [w \in Workers |-> "launches"]
  /\ WorkersIdle
  /\ DagIdle

\* Time passes between two runs of the gate.
GateTick ==
  /\ now < GateMaxTime
  /\ now' = now + 1
  /\ UNCHANGED <<tables, ledger, context, workervars, dagvars, quality_log>>

\* run_data_quality_checks on the snapshot: check_data_quality returns its
\* checks, they are pushed, and the two thresholds decide pass or raise.
EvaluateGate ==
  /\ Len(quality_log) < MaxEvals
  /\ LET checks == CheckDataQuality(tables, now)
     IN /\ quality_log' = Append(quality_log,
             [at |-> now, checks |-> checks, verdict |-> QualityVerdict(checks)])
        /\ xcom' = [xcom EXCEPT !["quality_checks"] = Some(checks)]
  /\ UNCHANGED <<dbvars, workervars, ti_state, tries, faults>>

NextGate ==
  \/ GateTick
  \/ EvaluateGate

SpecGate == InitGate /\ [][NextGate]_vars

(* ====================================================================== *)
(* Properties of the extraction and the run ledger (checked under Spec)    *)
(* ====================================================================== *)
Done(w) == pc[w] = "done"
ReturnedOk(w) == Done(w) /\ outcome[w].kind = "returned"
HasRaised(w) == Done(w) /\ outcome[w].kind = "raised"
AttemptEnds(w) == pc[w] # "done" /\ pc'[w] = "done"
Commits(w) == pc[w] = "loading" /\ pc'[w] = "done" /\ conn'[w] = "closed"
IsPrefix(s, t) == Len(s) <= Len(t) /\ \A i \in 1..Len(s) : s[i] = t[i]
ExtractionErrors == {"TransientFetchError", "StoreError"}

\* C1: every raw table holds at most one row per id (row count = distinct-id
\* count), whatever upserts ran and however two runs interleaved, so the
\* gate's duplicate count of launches is 0.
C1_Uniqueness ==
  /\ \A t \in Tables : Len(tables[t]) = Cardinality(Ids(tables[t]))
  /\ CheckDataQuality(tables, now).launches_duplicates = 0

\* Two open transactions on the same table have each written a row and the
\* next record of one has the id the other wrote.
C1_Witness ==
  \E v, w \in Workers :
    /\ v # w /\ task[v] = task[w]
    /\ pc[v] = "loading" /\ pc[w] = "loading"
    /\ pending[v] # <<>> /\ pending[w] # <<>>
    /\ idx[v] <= Len(batch[v])
    /\ batch[v][idx[v]].id \in WrittenIds(pending[w])

C3_Idempotence ==
  [][\A w \in Workers :
       (Commits(w) /\ Len(batch[w]) = 1 /\ task[w] # "rockets") =>
         LET rec == batch[w][1]
             t == task[w]
         IN /\ ~HasId(tables[t], rec.id) =>
                 (inserted_count[w] = Some(1) /\ updated_count[w] = Some(0))
            /\ HasId(tables[t], rec.id) =>
                 (inserted_count[w] = Some(0) /\ updated_count[w] = Some(1))
            /\ HasId(tables'[t], rec.id)
            /\ RowOf(tables'[t], rec.id).data = JsonDumps(rec)]_vars

\* The second call returned: the id was there, one update was counted and the
\* stored payload is the second input ("Falcon Test v2").
C3_Witness ==
  \E w \in Workers :
    /\ ReturnedOk(w) /\ task[w] = "launches"
    /\ Len(batch[w]) = 1
    /\ batch[w][1].name = "Falcon Test v2"
    /\ inserted_count[w] = Some(0) /\ updated_count[w] = Some(1)
    /\ RowOf(tables["launches"], "id1").data.name = "Falcon Test v2"

\* C4 (as claimed): every extraction attempt adds exactly one ledger row, and
\* the ledger only ever grows at its end.
C4_ExactlyOnePerAttempt ==
  [][/\ IsPrefix(ledger, ledger')
     /\ \A w \in Workers : AttemptEnds(w) => Len(ledger') = Len(ledger) + 1]_vars

\* C4 (amended): every extraction attempt makes one ledger write; when that
\* write succeeds the ledger grows by exactly one row, when it fails the
\* ledger is unchanged; no other step touches the ledger, whose existing rows
\* are never modified or removed.
C4_AppendOnly ==
  [][/\ IsPrefix(ledger, ledger')
     /\ \A w \in Workers :
          AttemptEnds(w) =>
            /\ log_result'[w] \in {"written", "swallowed"}
            /\ log_result'[w] = "written" => Len(ledger') = Len(ledger) + 1
            /\ log_result'[w] = "swallowed" => ledger' = ledger
     /\ (\A w \in Workers : ~AttemptEnds(w)) => ledger' = ledger]_vars

\* Two attempts of the same extractor, one failed and one successful, have
\* each left their row.
C4_Witness ==
  /\ Len(ledger) = 2
  /\ ledger[1].pipeline_name = ledger[2].pipeline_name
  /\ {ledger[1].status, ledger[2].status} = {"success", "failed"}

FetchFails(w) ==
  pc[w] = "idle" /\ pc'[w] = "done" /\ cause'[w] = "TransientFetchError"

FailedEntry(e) ==
  /\ e.status = "failed"
  /\ e.records_processed = 0
  /\ e.error_message # None

\* C5 (as claimed): a failed fetch always leaves one failed ledger entry with
\* records_processed 0 and an error message, and the error is re-raised.
C5_FetchFailureAlwaysLogged ==
  [][\A w \in Workers :
       FetchFails(w) =>
         /\ Len(ledger') = Len(ledger) + 1
         /\ FailedEntry(ledger'[Len(ledger')])
         /\ outcome'[w] = Raised("TransientFetchError")]_vars

\* C5 (amended): a failed fetch makes one ledger write before re-raising;
\* when that write succeeds the ledger gains exactly one entry, with status
\* failed, records_processed 0 and the error's text; when it fails the ledger
\* is unchanged; in both cases the fetch error is raised to the caller.
C5_FetchFailureLogged ==
  [][\A w \in Workers :
       FetchFails(w) =>
         /\ outcome'[w] = Raised("TransientFetchError")
         /\ log_result'[w] = "written" =>
              /\ Len(ledger') = Len(ledger) + 1
              /\ IsPrefix(ledger, ledger')
              /\ FailedEntry(ledger'[Len(ledger')])
              /\ ledger'[Len(ledger')].error_message = "TransientFetchError"
         /\ log_result'[w] # "written" => ledger' = ledger]_vars

\* A fetch failed, its entry is the last ledger row and the error was raised.
C5_Witness ==
  \E w \in Workers :
    /\ HasRaised(w) /\ cause[w] = "TransientFetchError"
    /\ log_result[w] = "written"
    /\ ledger # <<>>
    /\ FailedEntry(ledger[Len(ledger)])
    /\ outcome[w].error = "TransientFetchError"

\* C6: the ledger write never changes the outcome: an extraction that
\* committed and closed returns its record count, one that did not raises
\* its own fetch or store error, also when the ledger write failed.
C6_LedgerFailureHarmless ==
  \A w \in Workers :
    Done(w) =>
      /\ log_result[w] \in {"written", "swallowed"}
      /\ conn[w] = "closed" => outcome[w] = Returned(Len(batch[w]))
      /\ conn[w] # "closed" =>
           /\ outcome[w].kind = "raised"
           /\ outcome[w].error \in ExtractionErrors
           /\ outcome[w].error = cause[w]

\* Both cases at once: a committed extraction returned and a failed one
\* raised its own error, each with its ledger write lost.
C6_Witness ==
  \E v, w \in Workers :
    /\ ReturnedOk(v) /\ log_result[v] = "swallowed" /\ Len(batch[v]) > 0
    /\ HasRaised(w) /\ log_result[w] = "swallowed"

\* C9: once an operation has returned or raised, no connection it opened is
\* still open.
C9_ConnectionsReleased ==
  \A w \in Workers :
    Done(w) => (conn[w] # "open" /\ ledger_conn[w] # "open")

(* ====================================================================== *)
(* Properties of the quality gate (checked under SpecGate)                 *)
(* ====================================================================== *)
Logged == {quality_log[i] : i \in 1..Len(quality_log)}

\* C7: the step fails exactly when the missing-data count of launches is
\* above 50 or there is no satellite row; every other result passes, a
\* missing count of exactly 50 included.
C7_GateDecision ==
  \A e \in Logged :
    (e.verdict # "passed") <=>
      (e.checks.launches_missing_data > 50 \/ e.checks.starlink_total = 0)

\* 60 launch rows without date_utc or name and 5 satellites with no decay
\* flag: the step raised on the missing-data threshold.
C7_Witness ==
  \E e \in Logged :
    /\ e.checks.launches_missing_data = 60
    /\ e.checks.starlink_total = 5
    /\ e.checks.starlink_active = 0 /\ e.checks.starlink_inactive = 0
    /\ e.verdict = "Too many launches with missing data"

\* C10 (as claimed): any two evaluations of the gate on the same snapshot
\* return the same checks, whenever they are made, and change no table.
C10_SameAtAnyTime ==
  /\ \A e, f \in Logged : e.checks = f.checks
  /\ tables \in Snapshots

TimeFree(c) ==
  <<c.launches_duplicates, c.launches_missing_data, c.starlink_total,
    c.starlink_active, c.starlink_inactive>>

\* C10 (amended): two evaluations on the same snapshot agree on the duplicate
\* count, the missing-data count and the satellite total/active/inactive
\* whenever they are made, and on the recent count when made at the same
\* time; an evaluation changes no table.
C10_Determinism ==
  /\ [](\A e, f \in Logged :
          /\ TimeFree(e.checks) = TimeFree(f.checks)
          /\ e.at = f.at => e.checks = f.checks)
  /\ [][quality_log' # quality_log => tables' = tables]_vars

\* Two evaluations of one snapshot, a day apart, that differ in the recent
\* count alone.
C10_Witness ==
  /\ Len(quality_log) = 2
  /\ quality_log[1].at < quality_log[2].at
  /\ quality_log[1].checks.launches_missing_data > 0
  /\ quality_log[1].checks.starlink_total > 0
  /\ TimeFree(quality_log[1].checks) = TimeFree(quality_log[2].checks)
  /\ quality_log[1].checks.recent_launches > quality_log[2].checks.recent_launches

(* ====================================================================== *)
(* Properties of the DAG run (checked under SpecDag)                       *)
(* ====================================================================== *)
HasRun(t) == tries[t] > 0
AfterSummary == BashTasks \cup {"completion_notification"}

\* C8: the gate runs only after all three extractions succeeded, the summary
\* only after the gate passed, the later steps only after the summary; once
\* an extraction has failed for good none of them ever runs, and an
\* extraction is never skipped because of a sibling.
C8_Ordering ==
  /\ HasRun("data_quality_checks") =>
       \A e \in ExtractTasks : ti_state[e] = "success"
  /\ HasRun("extraction_summary") =>
       /\ ti_state["data_quality_checks"] = "success"
       /\ xcom["quality_checks"] # Absent
       /\ QualityVerdict(xcom["quality_checks"][1]) = "passed"
  /\ \A t \in AfterSummary : HasRun(t) => ti_state["extraction_summary"] = "success"
  /\ (\E e \in ExtractTasks : ti_state[e] = "failed") =>
       \A t \in {"data_quality_checks", "extraction_summary"} \cup AfterSummary :
         ~HasRun(t) /\ ti_state[t] \in {"none", "upstream_failed"}
  /\ \A e \in ExtractTasks :
       /\ ti_state[e] = "upstream_failed" =>
            ti_state["test_database_connection"] = "failed"
       /\ (ti_state[e] \in {"none", "up_for_retry"}
           /\ ti_state["test_database_connection"] = "success") => Runnable(e)

\* extract_launches failed for good, both siblings ran to success, and the
\* gate was skipped.
C8_Witness ==
  /\ ti_state["extract_launches"] = "failed"
  /\ ti_state["extract_starlink"] = "success"
  /\ ti_state["extract_rockets"] = "success"
  /\ ti_state["data_quality_checks"] = "upstream_failed"
  /\ ti_state["completion_notification"] = "upstream_failed"

BatchIds(w) == {batch[w][k].id : k \in 1..Len(batch[w])}

\* The step is one pass of w's for loop (one upsert statement).
Executes(w) == pc[w] = "loading" /\ idx'[w] = idx[w] + 1

LastOf(w, id) ==
  CHOOSE k \in 1..Len(batch[w]) :
    /\ batch[w][k].id = id
    /\ \A j \in (k + 1)..Len(batch[w]) : batch[w][j].id # id

\* C12: whatever ids a batch repeats, when the upsert commits the table
\* holds exactly one row for each id of the batch, with the dumped payload of
\* the last record of that id in batch order; where records are classified
\* (launches, starlink) a record is an insert exactly when its id is absent
\* from what its statement sees, so a repeated id is an update from its
\* second occurrence on, and the inserts counted at return are the ids of
\* the batch that the table did not hold.
C12_LastWriteWins ==
  [][\A w \in Workers :
       /\ Commits(w) =>
            LET t == task[w]
            IN /\ \A id \in BatchIds(w) :
                    /\ Cardinality({i \in 1..Len(tables'[t]) : tables'[t][i].id = id}) = 1
                    /\ RowOf(tables'[t], id).data = JsonDumps(batch[w][LastOf(w, id)])
               /\ t # "rockets" =>
                    /\ inserted_count[w] = Some(Cardinality(BatchIds(w) \ Ids(tables[t])))
                    /\ updated_count[w] =
                         Some(Len(batch[w]) - Cardinality(BatchIds(w) \ Ids(tables[t])))
       /\ (Executes(w) /\ task[w] # "rockets") =>
            LET rec == batch[w][idx[w]]
                seen == HasId(Overlay(tables[task[w]], pending[w]), rec.id)
            IN /\ (\E k \in 1..(idx[w] - 1) : batch[w][k].id = rec.id) => seen
               /\ IF seen
                    THEN /\ inserted_count'[w] = inserted_count[w]
                         /\ updated_count'[w] = Some(updated_count[w][1] + 1)
                    ELSE /\ inserted_count'[w] = Some(inserted_count[w][1] + 1)
                         /\ updated_count'[w] = updated_count[w]]_vars

\* A launches batch naming one new id twice, the later version first, has
\* returned: one insert, one update, and the one row stored for the id holds
\* the payload of the second record.
C12_Witness ==
  \E w \in Workers :
    /\ ReturnedOk(w) /\ task[w] = "launches"
    /\ Len(batch[w]) = 2
    /\ batch[w][1].id = batch[w][2].id
    /\ batch[w][1].name = "Falcon Test v2"
    /\ batch[w][2].name = "Falcon Test"
    /\ inserted_count[w] = Some(1) /\ updated_count[w] = Some(1)
    /\ Len(tables["launches"]) = 1
    /\ tables["launches"][1].data = JsonDumps(batch[w][2])

\* The step ends w's attempt with an exception.
Fails(w) == AttemptEnds(w) /\ outcome'[w].kind = "raised"

\* The rows appended to the ledger by the step.
NewEntries == {ledger'[i] : i \in (Len(ledger) + 1)..Len(ledger')}

\* C13: the committed rows of a raw table change only in the step that
\* commits an attempt whose whole batch was executed, and only in that
\* attempt's table; an attempt that fails (at the fetch, the connection, a
\* record's statement or the commit) does so in a step that leaves every
\* table as it was, with its connection never having committed, and the only
\* entry it can add is failed with 0 records; a success entry is added only
\* by the step whose tables hold the whole batch.
C13_AllOrNothing ==
  [][/\ tables' # tables =>
          \E w \in Workers :
            /\ Commits(w) /\ outcome'[w].kind = "returned"
            /\ idx[w] = Len(batch[w]) + 1
            /\ \A t \in Tables \ {task[w]} : tables'[t] = tables[t]
     /\ \A w \in Workers :
          Fails(w) =>
            /\ tables' = tables
            /\ conn'[w] # "closed"
            /\ pending'[w] = pending[w]
            /\ \A e \in NewEntries :
                 e.status = "failed" /\ e.records_processed = 0
     /\ \A e \in NewEntries :
          /\ e.status = "failed" => (tables' = tables /\ \E w \in Workers : Fails(w))
          /\ e.status = "success" =>
               \E w \in Workers :
                 /\ Commits(w) /\ outcome'[w].kind = "returned"
                 /\ e.records_processed = Len(batch[w])
                 /\ \A k \in 1..Len(batch[w]) : HasId(tables'[task[w]], batch[w][k].id)]_vars

\* An attempt failed on its second record after writing the first: its
\* failed entry with 0 records is in the ledger, the row it wrote is still
\* uncommitted and its table is empty.
C13_Witness ==
  \E w \in Workers :
    /\ HasRaised(w) /\ cause[w] = "StoreError"
    /\ pending[w] # <<>>
    /\ tables[task[w]] = <<>>
    /\ ledger # <<>>
    /\ ledger[Len(ledger)].pipeline_name = DagId(context) \o "." \o TaskId(task[w])
    /\ ledger[Len(ledger)].status = "failed"
    /\ ledger[Len(ledger)].records_processed = 0

====
